---- MODULE Spec2Model ----
(***************************************************************************)
(* Model of the poll / claim loop of reserve-teetime.mjs (main, lines      *)
(* 366-436): the deadline-guarded poll loop, the loop over target dates,   *)
(* the Add To Cart retry loop with its race check, the inter-pass jittered *)
(* delay and the final report.  Time is the wall clock in milliseconds.    *)
(* StartSpec runs the startup of main (lines 280-366) before that loop,    *)
(* FnSpec applies the helper functions of the script on their own.         *)
(***************************************************************************)
EXTENDS Integers, Sequences, FiniteSets, TLC

(* ---------------- bounds of the model ---------------- *)
\* cfg.searchSeconds ranges over 1..MaxSearchSeconds
MaxSearchSeconds == 2
\* Math.random() is drawn from {0/RandDen, ..., (RandDen-1)/RandDen}
RandDen == 2
\* the cart-indicator locator matches 0..MaxCartMatches elements
MaxCartMatches == 1
\* a search returns 0..MaxHits qualifying rows
MaxHits == 2
\* a listing holds up to MaxRows rows
MaxRows == 3

(* ---------------- program constants ---------------- *)
\* for (let i = 0; i < 3; i++)
MaxAttempts == 3
\* await page.waitForTimeout(200)
RetryPauseMs == 200
\* waitForLoadState("networkidle", { timeout: 3000 })
SettleTimeoutMs == 3000
\* return out.slice(0, 2)
MaxTargets == 2

(* ---------------- durations of the external surface calls ------------- *)
\* setDateAndSearch + findCandidates take one of these (ms)
SearchDurations == {500, 1000}
\* addBtn.click({trial:true}) and addBtn.click() together take this long (ms)
ClickDurations == {100}
\* the settle wait returns at once or runs into its timeout
SettleDurations == {0, SettleTimeoutMs}
\* page.reload takes this long (ms)
ReloadDurations == {500}
\* cfg.refreshJitter: [min, max] pairs the run may be configured with
JitterRanges == {<<1000, 1000>>, <<500, 1500>>}
\* target date lists (day offsets from today, chronological, at most 2)
TargetLists == {<<>>, <<5>>, <<5, 6>>}
\* candidate lists a search may produce: minute-of-day keys, ascending
HitLists == {<<>>} \cup {<<420>>} \cup (IF MaxHits >= 2 THEN {<<420, 510>>} ELSE {})

SetMax(S) == CHOOSE x \in S : \A y \in S : y <= x
SetMin(S) == CHOOSE x \in S : \A y \in S : x <= y

VARIABLES
  pc,            \* position of main in the poll loop
  now,           \* Date.now()
  start,         \* const start = Date.now()
  searchSeconds, \* cfg.searchSeconds
  refreshJitter, \* cfg.refreshJitter
  targets,       \* const targets
  di,            \* index of d in targets (1-based)
  hits,          \* const hits = await findCandidates(page)
  i,             \* retry loop counter
  added,         \* let added
  booked,        \* let booked
  onCartPage,    \* const onCartPage
  cartCount,     \* await cartIndicator.count()
  outcome,       \* what the run reported at its end
  \* ---- history (observation only, never read by the actions' guards) ----
  hist,          \* what each attempt on the current slot observed
  checked,       \* the latest attempt reached the race check
  clicks,        \* committing addBtn.click() calls issued in the run
  slotClicks,    \* committing clicks issued on the current slot
  securedCount,  \* attempts classified as succeeded in the run
  passes,        \* passes begun
  passStart,     \* Date.now() when the latest pass began
  cycles,        \* claim cycles (retry loops) begun in the run
  lateCycles,    \* claim cycles begun at or after the deadline
  lastExt,       \* kind of the latest action issued against the site
  trial,         \* what the trial click of the attempt in progress did
  paused,        \* the 200 ms pause was taken after the latest attempt
  beeps,         \* completion beeps written to stdout
  best,          \* const best = hits[0]
  target,        \* the slot record and handle the latest click was issued on
  lastDelay,     \* the jittered delay slept since the latest pass ended
  \* ---- startup (main, lines 280-360) ----
  cfg,           \* the cfg object: user, pass, windowStart, windowEnd
  authFile,      \* auth.json: "none", "valid" or "stale"
  release,       \* the clock value of today's 17:00:00.000 in cfg.tz
  ms,            \* const ms = msUntilCT(17, 0); -1 before that line
  slept,         \* how long the alignment slept
  ensured,       \* times the run made sure that it is logged in
  \* ---- the helper functions of the script, applied on their own ----
  fn,            \* the function under application ("main": the poll loop)
  arg,           \* its arguments and the configuration it reads
  res,           \* what it returned
  fdone          \* it has returned

vars == <<pc, now, start, searchSeconds, refreshJitter, targets, di, hits, i,
          added, booked, onCartPage, cartCount, outcome, hist, checked,
          clicks, slotClicks, securedCount, passes, passStart, cycles,
          lateCycles, lastExt, trial, paused, beeps, best, target, lastDelay,
          cfg, authFile, release, ms, slept, ensured, fn, arg, res, fdone>>

\* the variables of the startup, which the poll loop never writes
svars == <<cfg, authFile, release, ms, slept, ensured>>

\* the variables of the function applications
fvars == <<fn, arg, res, fdone>>

Last(s) == s[Len(s)]

BudgetMs == searchSeconds * 1000
Elapsed == now - start

\* the longest a single pass can take: per date a search and MaxAttempts
\* attempts (a click, then the settle wait or the pause), then delay and reload
MaxPassMs ==
  MaxTargets * (SetMax(SearchDurations)
                + MaxAttempts * (SetMax(ClickDurations)
                                 + SetMax(SettleDurations \cup {RetryPauseMs})))
  + SetMax({r[1] : r \in JitterRanges} \cup {r[2] : r \in JitterRanges})
  + SetMax(ReloadDurations)
\* the last pass begins before the budget is used up, so the clock of a run
\* never has to go beyond the budget plus one pass
MaxClockMs == start + BudgetMs + MaxPassMs

\* no slot record is in scope; no click has been issued on the slot in scope
NoBest == [t |-> 0, d |-> 0, p |-> 0, resolvedAt |-> 0]
NoTarget == [t |-> 0, d |-> 0, p |-> 0, resolvedAt |-> 0, attempt |-> 0 - 1]

\* a configuration as the README's .env gives it: credentials set, the
\* default window 07:00-09:00
DefaultCfg ==
  [loginUrl |-> "login.html", courseUrl |-> "search.html", user |-> "golfer",
   pass |-> "secret", courseName |-> "Roy Kizer Golf Course",
   windowStart |-> <<7, 0>>, windowEnd |-> <<9, 0>>]

\* the state at line 366: startup is over, the session was made sure of once,
\* gotoSearch was the latest action against the site, start = Date.now()
Init ==
  /\ pc = "loop"
  /\ now = 0
  /\ start = 0
  /\ searchSeconds \in 1..MaxSearchSeconds
  /\ refreshJitter \in JitterRanges
  /\ targets \in TargetLists
  /\ di = 1
  /\ hits = <<>>
  /\ i = 0
  /\ added = FALSE
  /\ booked = FALSE
  /\ onCartPage = FALSE
  /\ cartCount = 0
  /\ outcome = "none"
  /\ hist = <<>>
  /\ checked = FALSE
  /\ clicks = 0
  /\ slotClicks = 0
  /\ securedCount = 0
  /\ passes = 0
  /\ passStart = 0
  /\ cycles = 0
  /\ lateCycles = 0
  /\ lastExt = "goto"
  /\ trial = "none"
  /\ paused = FALSE
  /\ beeps = 0
  /\ best = NoBest
  /\ target = NoTarget
  /\ lastDelay = 0 - 1
  /\ cfg = DefaultCfg
  /\ authFile = "valid"
  /\ release = 0
  /\ ms = 0
  /\ slept = 0
  /\ ensured = 1
  /\ fn = "main"
  /\ arg = <<>>
  /\ res = <<>>
  /\ fdone = FALSE

\* variant: the deadline test lets a pass begin at exactly the budget
LoopCondLe == ~booked /\ Elapsed <= BudgetMs

\* variant: the loop test forgets the deadline
LoopCondNoDeadline == ~booked

(* ---------------- helpers translated from the loop ---------------- *)
\* while (!booked && Date.now() - start < cfg.searchSeconds * 1000)
LoopCond == ~booked /\ Elapsed < BudgetMs

\* variant: off-by-one retry bound
RetryCondLe(k) == k <= MaxAttempts

\* for (let i = 0; i < 3; i++)
RetryCond(k) == k < MaxAttempts

\* variant: both signals required
SucceededAnd(oc, cc) == oc /\ cc > 0

\* if (onCartPage || (await cartIndicator.count()))
Succeeded(oc, cc) == oc \/ cc > 0

\* variant: the loop over the dates runs once more than there are dates
ForHeadOffByOne(k) == IF k <= Len(targets) + 1 THEN "search" ELSE "passEnd"

\* for (const d of targets): the loop head for index k
ForHead(k) == IF k <= Len(targets) THEN "search" ELSE "passEnd"

\* variant: the "+ min" is forgotten
JitterMsNoMin(range, k) == (k * (range[2] - range[1])) \div RandDen

\* Math.floor(Math.random() * (max - min) + min), Math.random() = k / RandDen
JitterMs(range, k) == range[1] + ((k * (range[2] - range[1])) \div RandDen)

\* variant: no break after a verified success
AfterSecuredNoBreak(k) == [pc |-> IF RetryCond(k + 1) THEN "attempt" ELSE "claimEnd", i |-> k + 1]

\* break (line 403): leave the retry loop, the counter stays
AfterSecured(k) == [pc |-> "claimEnd", i |-> k]

\* end of a loop body without break (lines 404-408, 409-412): i++ and re-test
AfterLost(k) == [pc |-> IF RetryCond(k + 1) THEN "attempt" ELSE "claimEnd", i |-> k + 1]

\* variant: a failed claim ends the run
AfterFailedAbort(k) == [pc |-> "report", di |-> k]

\* variant: a failed claim searches the same date again
AfterFailedSameDate(k) == [pc |-> "search", di |-> k]

\* continue (line 419): go on with the next target date of the same pass
AfterFailed(k) == [pc |-> ForHead(k + 1), di |-> k + 1]

\* variant: no break out of the date loop after booking
AfterBookedNoBreak(k) == [pc |-> ForHead(k + 1), di |-> k + 1]

\* booked = true; break (lines 426-427): leave the loop over the dates
AfterBooked(k) == [pc |-> "passEnd", di |-> k]

\* variant: the latest record of the sorted result is taken
BestOfLast(h) == h[Len(h)]

\* const best = hits[0] (line 375)
BestOf(h) == h[1]

\* variant: the record is the one of the pass before
SlotRecordStale(h, d, p) == [t |-> BestOf(h), d |-> d, p |-> p - 1, resolvedAt |-> 0]

\* hits.push({ t: t24, row: r, addBtn: addBtn.first(), rawText: txt }) (line
\* 270) for the search of date index d in pass p: the time key and the Add To
\* Cart handle, which is resolved here, before attempt 0
SlotRecord(h, d, p) == [t |-> BestOf(h), d |-> d, p |-> p, resolvedAt |-> 0]

\* best.addBtn.click() (line 386) in attempt k: the click goes to the handle
\* that the slot record holds
Aim(b, k) == [t |-> b.t, d |-> b.d, p |-> b.p, resolvedAt |-> b.resolvedAt, attempt |-> k]

\* variant: a failing trial click ends the attempt in the catch block
AfterTrialAbort(ok) == IF ok THEN "click" ELSE "catch"

\* await best.addBtn.click({ trial: true }).catch(() => {}) (line 385): the
\* rejection is swallowed, the committing click comes next either way
AfterTrial(ok) == "click"

\* variant: the beep is written whatever the claim gave
BeepsAfterAlways(a, b) == b + 1

\* process.stdout.write("\x07") (line 425), reached only past the
\* "if (!added) continue" of line 415
BeepsAfter(a, b) == IF a THEN b + 1 ELSE b

\* variant: every pass redoes the alignment and the target dates
NextPassAtAlign == "align"

\* the end of the while body (line 433): back to the loop test of line 369;
\* the alignment (346-357) and the targets (359-360) are above the loop
NextPassAt == "loop"

\* variant: the delay and the reload are taken after every pass
ReloadCondAlways == TRUE

\* if (!booked) (line 429)
ReloadCond == ~booked

(* ---------------- actions ---------------- *)
\* line 369: the loop test at the top of every pass
LoopCheck ==
  /\ pc = "loop"
  /\ IF LoopCond
       THEN /\ pc' = ForHead(1)
            /\ di' = 1
            /\ passes' = passes + 1
            /\ passStart' = now
       ELSE /\ pc' = "report"
            /\ UNCHANGED <<di, passes, passStart>>
  /\ UNCHANGED <<now, start, searchSeconds, refreshJitter, targets, hits, i,
                 added, booked, onCartPage, cartCount, outcome, hist, checked,
                 clicks, slotClicks, securedCount, cycles, lateCycles>>
  /\ UNCHANGED <<lastExt, trial, paused, beeps>>
  /\ lastDelay' = 0 - 1
  /\ UNCHANGED <<best, target>>
  /\ UNCHANGED svars
  /\ UNCHANGED fvars

\* lines 371-373: a search that finds no candidate; continue with the next date
SearchNone ==
  /\ pc = "search"
  /\ \E dur \in SearchDurations :
       /\ now + dur <= MaxClockMs
       /\ now' = now + dur
  /\ hits' = <<>>
  /\ di' = di + 1
  /\ pc' = ForHead(di + 1)
  /\ UNCHANGED <<start, searchSeconds, refreshJitter, targets, i, added, booked,
                 onCartPage, cartCount, outcome, hist, checked, clicks,
                 slotClicks, securedCount, passes, passStart, cycles, lateCycles>>
  /\ lastExt' = "search"
  /\ UNCHANGED <<trial, paused, beeps>>
  /\ best' = NoBest
  /\ target' = NoTarget
  /\ UNCHANGED lastDelay
  /\ UNCHANGED svars
  /\ UNCHANGED fvars

\* lines 371-381: a search with candidates; best = hits[0], added = false,
\* and the retry loop is entered with i = 0
SearchHit ==
  /\ pc = "search"
  /\ \E dur \in SearchDurations, h \in HitLists \ {<<>>} :
       /\ now + dur <= MaxClockMs
       /\ now' = now + dur
       /\ hits' = h
  /\ i' = 0
  /\ added' = FALSE
  /\ pc' = IF RetryCond(0) THEN "attempt" ELSE "claimEnd"
  /\ onCartPage' = FALSE
  /\ cartCount' = 0
  /\ hist' = <<>>
  /\ checked' = FALSE
  /\ slotClicks' = 0
  /\ cycles' = cycles + 1
  /\ lateCycles' = IF now' - start >= BudgetMs THEN lateCycles + 1 ELSE lateCycles
  /\ UNCHANGED <<start, searchSeconds, refreshJitter, targets, di, booked,
                 outcome, clicks, securedCount, passes, passStart>>
  /\ lastExt' = "search"
  /\ trial' = "none"
  /\ paused' = FALSE
  /\ UNCHANGED beeps
  /\ best' = SlotRecord(hits', di, passes)
  /\ target' = NoTarget
  /\ UNCHANGED lastDelay
  /\ UNCHANGED svars
  /\ UNCHANGED fvars

\* lines 371-372 and 440-443: setDateAndSearch or findCandidates throws; nothing
\* in the loop catches it, the top-level catch reports "Fatal error"
SearchThrows ==
  /\ pc = "search"
  /\ \E dur \in SearchDurations :
       /\ now + dur <= MaxClockMs
       /\ now' = now + dur
  /\ pc' = "fatal"
  /\ outcome' = "Fatal"
  /\ UNCHANGED <<start, searchSeconds, refreshJitter, targets, di, hits, i,
                 added, booked, onCartPage, cartCount, hist, checked, clicks,
                 slotClicks, securedCount, passes, passStart, cycles, lateCycles>>
  /\ lastExt' = "search"
  /\ UNCHANGED <<trial, paused, beeps>>
  /\ UNCHANGED <<best, target, lastDelay>>
  /\ UNCHANGED svars
  /\ UNCHANGED fvars

\* line 385: the trial click, which runs the actionability checks and clicks
\* nothing; its failure is swallowed (its time is counted with the click's)
Trial ==
  /\ pc = "attempt"
  /\ \E ok \in BOOLEAN :
       /\ trial' = (IF ok THEN "ok" ELSE "failed")
       /\ pc' = AfterTrial(ok)
  /\ lastExt' = "trial"
  /\ checked' = FALSE
  /\ UNCHANGED <<now, start, searchSeconds, refreshJitter, targets, di, hits, i,
                 added, booked, onCartPage, cartCount, outcome, hist, clicks,
                 slotClicks, securedCount, passes, passStart, cycles, lateCycles>>
  /\ UNCHANGED <<paused, beeps>>
  /\ UNCHANGED <<best, target, lastDelay>>
  /\ UNCHANGED svars
  /\ UNCHANGED fvars

\* line 386: the committing click; a throwing click goes to the catch block
Click ==
  /\ pc = "click"
  /\ \E dur \in ClickDurations, threw \in BOOLEAN :
       /\ now + dur <= MaxClockMs
       /\ now' = now + dur
       /\ pc' = IF threw THEN "catch" ELSE "verify"
       /\ hist' = IF threw THEN Append(hist, "Threw") ELSE hist
  /\ clicks' = clicks + 1
  /\ slotClicks' = slotClicks + 1
  /\ checked' = FALSE
  /\ UNCHANGED <<start, searchSeconds, refreshJitter, targets, di, hits, i,
                 added, booked, onCartPage, cartCount, outcome, securedCount,
                 passes, passStart, cycles, lateCycles>>
  /\ lastExt' = "click"
  /\ UNCHANGED <<trial, paused, beeps>>
  /\ target' = Aim(best, i)
  /\ UNCHANGED <<best, lastDelay>>
  /\ UNCHANGED svars
  /\ UNCHANGED fvars

\* lines 389-408: settle wait, then the race check on the two signals; the
\* else branch (lines 404-408) only warns and takes no pause
Verify ==
  /\ pc = "verify"
  /\ \E dur \in SettleDurations, oc \in BOOLEAN, cc \in 0..MaxCartMatches :
       /\ now + dur <= MaxClockMs
       /\ now' = now + dur
       /\ onCartPage' = oc
       /\ cartCount' = cc
       /\ hist' = Append(hist, IF ~oc /\ cc = 0 THEN "NoSignal" ELSE "Signal")
       /\ IF Succeeded(oc, cc)
            THEN /\ added' = TRUE
                 /\ securedCount' = securedCount + 1
                 /\ pc' = AfterSecured(i).pc
                 /\ i' = AfterSecured(i).i
            ELSE /\ pc' = AfterLost(i).pc
                 /\ i' = AfterLost(i).i
                 /\ UNCHANGED <<added, securedCount>>
  /\ checked' = TRUE
  /\ UNCHANGED <<start, searchSeconds, refreshJitter, targets, di, hits, booked,
                 outcome, clicks, slotClicks, passes, passStart, cycles,
                 lateCycles>>
  /\ trial' = "none"
  /\ paused' = FALSE
  /\ UNCHANGED <<lastExt, beeps>>
  /\ UNCHANGED <<best, target, lastDelay>>
  /\ UNCHANGED svars
  /\ UNCHANGED fvars

\* lines 409-412: the catch block of an attempt: warn, pause 200 ms, next i
CatchPause ==
  /\ pc = "catch"
  /\ now + RetryPauseMs <= MaxClockMs
  /\ now' = now + RetryPauseMs
  /\ pc' = AfterLost(i).pc
  /\ i' = AfterLost(i).i
  /\ UNCHANGED <<start, searchSeconds, refreshJitter, targets, di, hits, added,
                 booked, onCartPage, cartCount, outcome, hist, checked, clicks,
                 slotClicks, securedCount, passes, passStart, cycles, lateCycles>>
  /\ trial' = "none"
  /\ paused' = TRUE
  /\ UNCHANGED <<lastExt, beeps>>
  /\ UNCHANGED <<best, target, lastDelay>>
  /\ UNCHANGED svars
  /\ UNCHANGED fvars

\* lines 415-427: after the retry loop
ClaimEnd ==
  /\ pc = "claimEnd"
  /\ IF ~added
       THEN /\ pc' = AfterFailed(di).pc
            /\ di' = AfterFailed(di).di
            /\ UNCHANGED booked
       ELSE /\ booked' = TRUE
            /\ pc' = AfterBooked(di).pc
            /\ di' = AfterBooked(di).di
  /\ checked' = FALSE
  /\ UNCHANGED <<now, start, searchSeconds, refreshJitter, targets, hits, i,
                 added, onCartPage, cartCount, outcome, hist, clicks,
                 slotClicks, securedCount, passes, passStart, cycles, lateCycles>>
  /\ beeps' = BeepsAfter(added, beeps)
  /\ UNCHANGED <<lastExt, trial, paused>>
  /\ UNCHANGED <<best, target, lastDelay>>
  /\ UNCHANGED svars
  /\ UNCHANGED fvars

\* lines 429-432: the jittered delay and the reload between two passes
PassEnd ==
  /\ pc = "passEnd"
  /\ IF ReloadCond
       THEN /\ \E k \in 0..(RandDen - 1), rd \in ReloadDurations :
                 /\ now + JitterMs(refreshJitter, k) + rd <= MaxClockMs
                 /\ now' = now + JitterMs(refreshJitter, k) + rd
                 /\ lastDelay' = JitterMs(refreshJitter, k)
            /\ lastExt' = "reload"
       ELSE UNCHANGED <<now, lastExt, lastDelay>>
  /\ pc' = NextPassAt
  /\ UNCHANGED <<start, searchSeconds, refreshJitter, targets, di, hits, i,
                 added, booked, onCartPage, cartCount, outcome, hist, checked,
                 clicks, slotClicks, securedCount, passes, passStart, cycles,
                 lateCycles>>
  /\ UNCHANGED <<trial, paused, beeps>>
  /\ UNCHANGED <<best, target>>
  /\ UNCHANGED svars
  /\ UNCHANGED fvars

\* lines 435-436: the final report
Report ==
  /\ pc = "report"
  /\ outcome' = IF booked THEN "Secured" ELSE "Exhausted"
  /\ pc' = "done"
  /\ UNCHANGED <<now, start, searchSeconds, refreshJitter, targets, di, hits, i,
                 added, booked, onCartPage, cartCount, hist, checked, clicks,
                 slotClicks, securedCount, passes, passStart, cycles, lateCycles>>
  /\ UNCHANGED <<lastExt, trial, paused, beeps>>
  /\ UNCHANGED <<best, target, lastDelay>>
  /\ UNCHANGED svars
  /\ UNCHANGED fvars

Next ==
  \/ LoopCheck
  \/ SearchNone
  \/ SearchHit
  \/ SearchThrows
  \/ Trial
  \/ Click
  \/ Verify
  \/ CatchPause
  \/ ClaimEnd
  \/ PassEnd
  \/ Report

Spec == Init /\ [][Next]_vars

\* one thread of control whose awaited calls all return: every enabled step
\* of main is eventually taken
FairSpec == Spec /\ WF_vars(Next)

TypeOK ==
  /\ pc \in {"loop", "search", "attempt", "click", "verify", "catch",
             "claimEnd", "passEnd", "report", "done", "fatal"}
  /\ now \in 0..MaxClockMs
  /\ searchSeconds \in 1..MaxSearchSeconds
  /\ i \in 0..MaxAttempts
  /\ di \in 1..(Len(targets) + 1)
  /\ added \in BOOLEAN /\ booked \in BOOLEAN
  /\ outcome \in {"none", "Secured", "Exhausted", "Fatal"}

\* a pass never lasts longer than MaxPassMs and begins before the budget is
\* used up, so no step of a run is held back by the bound on the clock
ClockFree == now - passStart <= MaxPassMs /\ (passes > 0 => passStart < BudgetMs)

(* ================= startup: main, lines 280-366 ================= *)
(* The run from its first line: assertEnv, browser launch, session         *)
(* handling, gotoSearch, the alignment to 5:00 PM, the target dates; then  *)
(* the poll loop above.  The clock starts at 0 when the script starts.     *)

\* if (ms > 0 && ms < 120000)
AlignCeilingMs == 120000

\* USERNAME and PASSWORD as the environment may give them ("" is unset)
Usernames == {"", "golfer"}
Passwords == {"", "secret"}
\* WINDOW_START / WINDOW_END as the environment may give them: the default,
\* a window whose start is after its end, and one beyond the end of the day
StartWindows == {<<<<7, 0>>, <<9, 0>>>>, <<<<9, 0>>, <<7, 0>>>>, <<<<23, 0>>, <<25, 30>>>>}
\* auth.json is absent, holds a session that is still valid, or a stale one
AuthFiles == {"none", "valid", "stale"}
\* today's 17:00:00 in cfg.tz on the clock of the run: the script is started
\* after it, at it, or 1, 2 or 5 minutes before it
Releases == {0 - 60000, 0, 60000, 120000, 300000}
\* what launch, session handling and gotoSearch take together (ms)
StartupDurations == {0, 500}

\* variant: the password is not required
RequiredNoPass == {"loginUrl", "courseUrl", "user", "courseName"}

\* const required = ["loginUrl", "courseUrl", "user", "pass", "courseName"]
Required == {"loginUrl", "courseUrl", "user", "pass", "courseName"}

\* required.filter((k) => !cfg[k])
Missing(c) == {k \in Required : c[k] = ""}

\* msUntilCT(17, 0): nowCT is parsed from a locale string, which has no
\* milliseconds; delta = tgtCT - nowCT; Math.max(0, tgt - now)
MsUntilCT(t, rel) ==
  LET nowCT == (t \div 1000) * 1000
      delta == rel - nowCT
  IN IF delta > 0 THEN delta ELSE 0

\* variant: a wait of exactly the ceiling is slept
AlignWaitsLe(m) == m > 0 /\ m <= AlignCeilingMs

\* if (ms > 0 && ms < 120000)
AlignWaits(m) == m > 0 /\ m < AlignCeilingMs

\* variant: the budget runs from the start of the script
BudgetStartAtLaunch(t) == 0

\* const start = Date.now() (line 366), t being the clock at that line
BudgetStart(t) == t

\* the variables of the poll loop that the startup leaves as they are
loopvars == <<searchSeconds, refreshJitter, di, hits, i, added, booked,
              onCartPage, cartCount, hist, checked, clicks, slotClicks,
              securedCount, passes, passStart, cycles, lateCycles, trial,
              paused, beeps, best, target, lastDelay>>

StartInit ==
  /\ pc = "assertEnv"
  /\ now = 0
  /\ start = 0
  /\ searchSeconds = 2
  /\ refreshJitter = <<500, 1500>>
  /\ targets = <<>>
  /\ di = 1
  /\ hits = <<>>
  /\ i = 0
  /\ added = FALSE
  /\ booked = FALSE
  /\ onCartPage = FALSE
  /\ cartCount = 0
  /\ outcome = "none"
  /\ hist = <<>>
  /\ checked = FALSE
  /\ clicks = 0
  /\ slotClicks = 0
  /\ securedCount = 0
  /\ passes = 0
  /\ passStart = 0
  /\ cycles = 0
  /\ lateCycles = 0
  /\ lastExt = "none"
  /\ trial = "none"
  /\ paused = FALSE
  /\ beeps = 0
  /\ best = NoBest
  /\ target = NoTarget
  /\ lastDelay = 0 - 1
  /\ \E u \in Usernames, pw \in Passwords, w \in StartWindows :
       cfg = [DefaultCfg EXCEPT !.user = u, !.pass = pw,
                                !.windowStart = w[1], !.windowEnd = w[2]]
  /\ authFile \in AuthFiles
  /\ release \in Releases
  /\ ms = 0 - 1
  /\ slept = 0
  /\ ensured = 0
  /\ fn = "main"
  /\ arg = <<>>
  /\ res = <<>>
  /\ fdone = FALSE

\* lines 45-50, 281 and 440-443: assertEnv throws on a missing required
\* field; the top-level catch reports "Fatal error"
AssertEnv ==
  /\ pc = "assertEnv"
  /\ IF Missing(cfg) # {}
       THEN pc' = "fatal" /\ outcome' = "Fatal"
       ELSE pc' = "launch" /\ UNCHANGED outcome
  /\ UNCHANGED <<now, start, targets, lastExt, cfg, authFile, release, ms,
                 slept, ensured>>
  /\ UNCHANGED loopvars
  /\ UNCHANGED fvars

\* lines 293-312: auth.json is read from the disk, then the browser, the
\* context and the page are opened
Launch ==
  /\ pc = "launch"
  /\ lastExt' = "launch"
  /\ pc' = "session"
  /\ UNCHANGED <<now, start, targets, outcome, cfg, authFile, release, ms,
                 slept, ensured>>
  /\ UNCHANGED loopvars
  /\ UNCHANGED fvars

\* lines 314-342: with a saved session go to the tee sheet and check it, log
\* in when it is not valid (or the check throws); without one log in; after a
\* login the session is saved to auth.json
Session ==
  /\ pc = "session"
  /\ \E dur \in StartupDurations : now' = now + dur
  /\ lastExt' = (IF authFile = "valid" THEN "goto" ELSE "login")
  /\ authFile' = "valid"
  /\ ensured' = ensured + 1
  /\ pc' = "gotoSearch"
  /\ UNCHANGED <<start, targets, outcome, cfg, release, ms, slept>>
  /\ UNCHANGED loopvars
  /\ UNCHANGED fvars

\* line 344: await gotoSearch(page)
GotoSearch ==
  /\ pc = "gotoSearch"
  /\ lastExt' = "goto"
  /\ pc' = "align"
  /\ UNCHANGED <<now, start, targets, outcome, cfg, authFile, release, ms,
                 slept, ensured>>
  /\ UNCHANGED loopvars
  /\ UNCHANGED fvars

\* lines 306-344 and 440-443: the launch, the login or a navigation throws;
\* the top-level catch reports "Fatal error"
StartupThrows ==
  /\ pc \in {"launch", "session", "gotoSearch"}
  /\ lastExt' = (CASE pc = "launch" -> "launch"
                   [] pc = "session" -> (IF authFile = "none" THEN "login" ELSE "goto")
                   [] OTHER -> "goto")
  /\ pc' = "fatal"
  /\ outcome' = "Fatal"
  /\ UNCHANGED <<now, start, targets, cfg, authFile, release, ms, slept,
                 ensured>>
  /\ UNCHANGED loopvars
  /\ UNCHANGED fvars

\* lines 347-357: the alignment to 5:00 PM: sleep ms when 0 < ms < 120000,
\* else go on at once
Align ==
  /\ pc = "align"
  /\ ms' = MsUntilCT(now, release)
  /\ IF AlignWaits(ms')
       THEN now' = now + ms' /\ slept' = ms'
       ELSE UNCHANGED <<now, slept>>
  /\ pc' = "targets"
  /\ UNCHANGED <<start, targets, outcome, lastExt, cfg, authFile, release,
                 ensured>>
  /\ UNCHANGED loopvars
  /\ UNCHANGED fvars

\* lines 359-367: the target dates, start = Date.now(), booked = false
Targets ==
  /\ pc = "targets"
  /\ targets' \in TargetLists
  /\ start' = BudgetStart(now)
  /\ pc' = "loop"
  /\ UNCHANGED <<now, outcome, lastExt, cfg, authFile, release, ms, slept,
                 ensured>>
  /\ UNCHANGED loopvars
  /\ UNCHANGED fvars

StartNext ==
  \/ AssertEnv
  \/ Launch
  \/ Session
  \/ GotoSearch
  \/ StartupThrows
  \/ Align
  \/ Targets
  \/ LoopCheck
  \/ SearchNone
  \/ SearchHit
  \/ SearchThrows
  \/ Trial
  \/ Click
  \/ Verify
  \/ CatchPause
  \/ ClaimEnd
  \/ PassEnd
  \/ Report

\* the whole run, from the first line of main
StartSpec == StartInit /\ [][StartNext]_vars

(* ================= the helper functions of the script ================= *)
(* A time string "HH:MM" is the pair <<hours, minutes>> of the numbers its  *)
(* two fields show; a clock-time token "H:MM am" of a row text is a record  *)
(* [hh, mm, ampm] of what the pattern (\d{1,2}):(\d{2})\s*([AP]M) captures. *)

\* the variables of the poll loop
mainvars == <<pc, now, start, searchSeconds, refreshJitter, targets, di, hits, i,
              added, booked, onCartPage, cartCount, outcome, hist, checked,
              clicks, slotClicks, securedCount, passes, passStart, cycles,
              lateCycles, lastExt, trial, paused, beeps, best, target,
              lastDelay, cfg, authFile, release, ms, slept, ensured>>

\* the poll loop is not running while a helper function is applied on its own
MainOff ==
  /\ pc = "off"
  /\ now = 0
  /\ start = 0
  /\ searchSeconds = 1
  /\ refreshJitter = <<1000, 1000>>
  /\ targets = <<>>
  /\ di = 1
  /\ hits = <<>>
  /\ i = 0
  /\ added = FALSE
  /\ booked = FALSE
  /\ onCartPage = FALSE
  /\ cartCount = 0
  /\ outcome = "none"
  /\ hist = <<>>
  /\ checked = FALSE
  /\ clicks = 0
  /\ slotClicks = 0
  /\ securedCount = 0
  /\ passes = 0
  /\ passStart = 0
  /\ cycles = 0
  /\ lateCycles = 0
  /\ lastExt = "none"
  /\ trial = "none"
  /\ paused = FALSE
  /\ beeps = 0
  /\ best = NoBest
  /\ target = NoTarget
  /\ lastDelay = 0 - 1
  /\ cfg = DefaultCfg
  /\ authFile = "none"
  /\ release = 0
  /\ ms = -1
  /\ slept = 0
  /\ ensured = 0

\* hours a token may show: the well-formed 1..12 and some that only the
\* pattern accepts
TokenHours == 0..13 \cup {99}
\* minutes a token may show: 00..59 at the edges and one value above 59
TokenMinutes == {0, 1, 10, 30, 59, 75}
\* the spellings of the am/pm marker the /i patterns accept
AmPmSpellings == {"am", "pm", "AM", "PM", "Pm"}
Tokens == [hh : TokenHours, mm : TokenMinutes, ampm : AmPmSpellings]
\* time strings timeInRange is applied to
TimeStrings == {<<h, m>> : h \in {0, 6, 7, 8, 9, 12, 23}, m \in {0, 1, 30, 59}}
\* cfg.windowStart / cfg.windowEnd pairs
Windows == {<<<<7, 0>>, <<9, 0>>>>, <<<<16, 0>>, <<19, 0>>>>, <<<<0, 0>>, <<23, 59>>>>,
            <<<<7, 30>>, <<7, 30>>>>}

\* function toMin(hhmm): split(":").map(Number), h * 60 + m
ToMin(hhmm) == hhmm[1] * 60 + hhmm[2]

\* variant: the upper end is exclusive
TimeInRangeExcl(hhmm, s, e) == ToMin(hhmm) >= ToMin(s) /\ ToMin(hhmm) < ToMin(e)

\* function timeInRange(hhmm, start, end)
TimeInRange(hhmm, s, e) == ToMin(hhmm) >= ToMin(s) /\ ToMin(hhmm) <= ToMin(e)

\* /pm/i.test(ampm) and /am/i.test(ampm)
IsPm(ampm) == ampm \in {"pm", "PM", "Pm", "pM"}
IsAm(ampm) == ampm \in {"am", "AM", "Am", "aM"}

\* variant: 12 am is not mapped to hour 0
NormalizeTimeLabelNoMidnight(label) ==
  IF label = <<>> THEN <<>>
  ELSE LET m  == label[1]
           h1 == IF IsPm(m.ampm) /\ m.hh # 12 THEN m.hh + 12 ELSE m.hh
       IN  <<h1, m.mm>>

\* function normalizeTimeLabel(label): label is the sequence of the clock-time
\* tokens the text holds, match() takes the first; no token gives "" (<<>>)
NormalizeTimeLabel(label) ==
  IF label = <<>> THEN <<>>
  ELSE LET m  == label[1]
           h1 == IF IsPm(m.ampm) /\ m.hh # 12 THEN m.hh + 12 ELSE m.hh
           h2 == IF IsAm(m.ampm) /\ h1 = 12 THEN 0 ELSE h1
       IN  <<h2, m.mm>>

(* ---------------- findCandidates ---------------- *)
(* A row of the results table is a record [id, label, toks, btns]: label     *)
(* says whether its text includes cfg.courseName, toks are the clock-time    *)
(* tokens of its text in reading order, btns counts its Add To Cart buttons  *)
(* and links.                                                                *)
Tok(h, m, a) == [hh |-> h, mm |-> m, ampm |-> a]
Row(n, l, t, b) == [id |-> n, label |-> l, toks |-> t, btns |-> b]
RowPool ==
  { Row(1, TRUE, <<Tok(6, 59, "am")>>, 1),
    Row(2, TRUE, <<Tok(7, 0, "am")>>, 1),
    Row(3, TRUE, <<Tok(8, 30, "am")>>, 1),
    Row(4, TRUE, <<Tok(9, 1, "am")>>, 1),
    Row(5, TRUE, <<Tok(7, 0, "AM")>>, 1),
    Row(6, FALSE, <<Tok(8, 0, "am")>>, 1),
    Row(7, TRUE, <<Tok(8, 0, "am")>>, 0),
    Row(8, TRUE, <<>>, 1),
    Row(9, TRUE, <<Tok(6, 0, "am"), Tok(8, 0, "am")>>, 1),
    Row(10, TRUE, <<Tok(7, 75, "am")>>, 1),
    Row(11, TRUE, <<Tok(8, 10, "am")>>, 2),
    Row(12, TRUE, <<Tok(5, 0, "pm")>>, 1),
    Row(13, TRUE, <<Tok(9, 0, "am")>>, 1) }
RowById(n) == CHOOSE r \in RowPool : r.id = n
\* the listing of the end-to-end scenario: 6:59 am, 7:00 am, 8:30 am, 9:01 am
ScenarioRows == <<RowById(1), RowById(2), RowById(3), RowById(4)>>
\* listings: up to MaxRows different rows in any order, and the scenario
Listings ==
  {<<>>} \cup
  UNION {{f \in [1..n -> RowPool] : \A a, b \in 1..n : a # b => f[a] # f[b]} : n \in 1..MaxRows}
  \cup {ScenarioRows}

\* the characters of String(hh).padStart(2, "0") + ":" + mm, coded so that
\* ":" (0) sorts before the digits (digit d is d + 1), as localeCompare has it
DigitsOf(n) ==
  IF n < 10 THEN <<n + 1>>
  ELSE IF n < 100 THEN <<(n \div 10) + 1, (n % 10) + 1>>
  ELSE <<(n \div 100) + 1, ((n \div 10) % 10) + 1, (n % 10) + 1>>
PadStart2(cs) == IF Len(cs) < 2 THEN <<1>> \o cs ELSE cs
TimeKey(t) == PadStart2(DigitsOf(t[1])) \o <<0>> \o <<(t[2] \div 10) + 1, (t[2] % 10) + 1>>

\* a.localeCompare(b) < 0 on such strings
RECURSIVE StrLess(_, _)
StrLess(a, b) ==
  IF b = <<>> THEN FALSE
  ELSE IF a = <<>> THEN TRUE
  ELSE IF a[1] # b[1] THEN a[1] < b[1]
  ELSE StrLess(Tail(a), Tail(b))

\* variant: the comparator's operands are swapped
HitBeforeSwapped(a, b) == StrLess(TimeKey(b.t), TimeKey(a.t))

\* (a, b) => a.t.localeCompare(b.t), negative: a sorts before b
HitBefore(a, b) == StrLess(TimeKey(a.t), TimeKey(b.t))

\* hits.sort(cmp): Array.prototype.sort is stable, an element goes behind all
\* elements that do not sort after it
RECURSIVE SortHits(_)
SortHits(hs) ==
  IF hs = <<>> THEN <<>>
  ELSE LET front == SortHits(SubSeq(hs, 1, Len(hs) - 1))
           h     == hs[Len(hs)]
           later == {k \in 1..Len(front) : HitBefore(h, front[k])}
           at    == IF later = {} THEN Len(front) + 1
                    ELSE CHOOSE k \in later : \A j \in later : k <= j
       IN  SubSeq(front, 1, at - 1) \o <<h>> \o SubSeq(front, at, Len(front))

\* variant: the Add To Cart button of the row is not looked for
RowQualifiesNoBtn(r, ws, we) ==
  /\ r.label
  /\ r.toks # <<>>
  /\ TimeInRange(NormalizeTimeLabel(<<r.toks[1]>>), ws, we)

\* lines 260-269: the tests a row has to pass to become a hit
RowQualifies(r, ws, we) ==
  /\ r.label
  /\ r.toks # <<>>
  /\ NormalizeTimeLabel(<<r.toks[1]>>) # <<>>
  /\ TimeInRange(NormalizeTimeLabel(<<r.toks[1]>>), ws, we)
  /\ r.btns > 0

\* lines 258-271: the loop over the rows
RECURSIVE CollectHits(_, _, _)
CollectHits(rows, ws, we) ==
  IF rows = <<>> THEN <<>>
  ELSE (IF RowQualifies(rows[1], ws, we)
          THEN <<[t |-> NormalizeTimeLabel(<<rows[1].toks[1]>>), row |-> rows[1].id]>>
          ELSE <<>>)
       \o CollectHits(Tail(rows), ws, we)

\* async function findCandidates(page)
FindCandidates(rows, ws, we) == SortHits(CollectHits(rows, ws, we))


(* ---------------- target dates ---------------- *)
(* A string is the sequence of its characters.  A date is the number of     *)
(* days from today to it; today is 10/(19 + dow0)/2025, the weekday dow0    *)
(* (0 = Sunday) of the week that begins on Sunday 10/19/2025.               *)
\* for (let i = 0; i < 14; i++)
LookaheadDays == 14

LowerMap == "A" :> "a" @@ "C" :> "c" @@ "L" :> "l" @@ "V" :> "v" @@ "F" :> "f" @@ "M" :> "m" @@ "N" :> "n" @@ "S" :> "s" @@ "T" :> "t" @@ "U" :> "u" @@ "W" :> "w"
\* String.prototype.toLowerCase
ToLowerCase(str) == [k \in 1..Len(str) |-> IF str[k] \in DOMAIN LowerMap THEN LowerMap[str[k]] ELSE str[k]]
\* String.prototype.startsWith
StartsWith(str, x) == Len(x) <= Len(str) /\ SubSeq(str, 1, Len(x)) = x

\* toLocaleDateString("en-US", { weekday: "short" }) for weekday 0..6
DowShort == <<<<"S", "u", "n">>, <<"M", "o", "n">>, <<"T", "u", "e">>, <<"W", "e", "d">>, <<"T", "h", "u">>, <<"F", "r", "i">>, <<"S", "a", "t">>>>
\* the weekday of the day i days after today
WeekdayOf(dow0, k) == (dow0 + k) % 7

\* variant: the token is tested against the abbreviation the other way round
DayMatchesReversed(dow, prefs) ==
  \E k \in 1..Len(prefs) : StartsWith(ToLowerCase(prefs[k]), ToLowerCase(DowShort[dow + 1]))

\* cfg.preferredDays.some((x) => dow.toLowerCase().startsWith(x.toLowerCase()))
DayMatches(dow, prefs) ==
  \E k \in 1..Len(prefs) : StartsWith(ToLowerCase(DowShort[dow + 1]), ToLowerCase(prefs[k]))

\* variant: the list is not cut
SliceTwoAll(out) == out

\* out.slice(0, 2)
SliceTwo(out) == SubSeq(out, 1, IF Len(out) < MaxTargets THEN Len(out) ELSE MaxTargets)

\* lines 106-119: the days of the lookahead that match, in the order scanned
RECURSIVE ScanDays(_, _, _)
ScanDays(dow0, prefs, k) ==
  IF k >= LookaheadDays THEN <<>>
  ELSE (IF DayMatches(WeekdayOf(dow0, k), prefs) THEN <<k>> ELSE <<>>)
       \o ScanDays(dow0, prefs, k + 1)

\* function nextWeekendDates()
NextWeekendDates(dow0, prefs) == SliceTwo(ScanDays(dow0, prefs, 0))

\* days before the first of month m in a year of 365 days
DaysBeforeMonth == <<0, 31, 59, 90, 120, 151, 181, 212, 243, 273, 304, 334>>
\* the days from today to the date yyyy-mm-dd
DaysFromToday(dow0, mm, dd, yyyy) ==
  (yyyy - 2025) * 365 + DaysBeforeMonth[mm] + dd - (DaysBeforeMonth[10] + 19 + dow0)

\* variant: a value without its year part is taken to mean a day of 2025
ParseForcedDateFromEnvLenient(env, dow0) ==
  IF env = <<>> THEN <<>>
  ELSE IF Len(env) < 2 THEN <<>>
  ELSE IF ~(env[1] \in 1..12 /\ env[2] \in 1..31) THEN <<>>
  ELSE <<DaysFromToday(dow0, env[1], env[2], IF Len(env) < 3 THEN 2025 ELSE env[3])>>

\* function parseForcedDateFromEnv(): env is TARGET_DATE split at "/" (<<>> when
\* unset or empty); null is <<>>, a date d is <<d>>; new Date() is Invalid Date
\* for a month outside 1..12 or a day outside 1..31 (0 also stands for a part
\* that is empty or not a number)
ParseForcedDateFromEnv(env, dow0) ==
  IF env = <<>> THEN <<>>
  ELSE IF Len(env) < 3 THEN <<>>
  ELSE IF ~(env[1] \in 1..12 /\ env[2] \in 1..31) THEN <<>>
  ELSE <<DaysFromToday(dow0, env[1], env[2], env[3])>>

\* variant: the computed dates are appended to the forced date
ComputeTargetsMerged(env, dow0, prefs) ==
  ParseForcedDateFromEnv(env, dow0) \o NextWeekendDates(dow0, prefs)

\* lines 359-360: const targets = forced ? [forced] : nextWeekendDates()
ComputeTargets(env, dow0, prefs) ==
  LET forced == ParseForcedDateFromEnv(env, dow0)
  IN  IF forced # <<>> THEN forced ELSE NextWeekendDates(dow0, prefs)

\* PREFERRED_DAYS values, split at "," and trimmed
PrefLists ==
  { <<<<"S", "a", "t">>, <<"S", "u", "n">>>>,
    <<<<"S", "u", "n">>, <<"S", "a", "t">>>>,
    <<<<"S", "a", "t">>>>,
    <<<<"s", "a", "t">>, <<"S", "U", "N">>>>,
    <<<<"T", "h", "u">>>>,
    <<<<"M", "o", "n">>, <<"W", "e", "d">>, <<"F", "r", "i">>>>,
    <<<<"S", "a", "t", "u", "r", "d", "a", "y">>, <<"S", "u", "n", "d", "a", "y">>>>,
    <<<<"S", "u", "n", "d", "a", "y">>>> }
\* TARGET_DATE values, split at "/"
TargetDateEnvs ==
  { <<>>, <<10, 26, 2025>>, <<11, 2, 2025>>, <<10, 20, 2025>>, <<1, 15, 2026>>,
    <<10, 26>>, <<13, 45, 2025>>, <<10, 26, 2025, 7>>, <<10>>, <<10, 0, 2025>> }

(* ---- the race check's cart indicator (lines 392-403) ---- *)
(* An element of the page is its tag and its inner text, a tuple of      *)
(* characters.                                                           *)
Chars(w) ==
  CASE w = "Add To Cart" -> <<"A", "d", "d", " ", "T", "o", " ", "C", "a", "r", "t">>
    [] w = "Cart" -> <<"C", "a", "r", "t">>
    [] w = "View Cart (1)" -> <<"V", "i", "e", "w", " ", "C", "a", "r", "t", " ", "(", "1", ")">>
    [] w = "cart" -> <<"c", "a", "r", "t">>
    [] w = "Logout" -> <<"L", "o", "g", "o", "u", "t">>

\* the elements a page may hold after a click: Add To Cart affordances of
\* slots still free (an anchor, a button), cart markers (a link, a badge),
\* and a link that has nothing to do with either
PageElements ==
  { [tag |-> "a", text |-> Chars("Add To Cart")],
    [tag |-> "button", text |-> Chars("Add To Cart")],
    [tag |-> "a", text |-> Chars("View Cart (1)")],
    [tag |-> "span", text |-> Chars("cart")],
    [tag |-> "a", text |-> Chars("Logout")] }
Pages == SUBSET PageElements

\* String.prototype.includes on lower-cased strings
Includes(str, sub) ==
  \E k \in 1..(Len(str) - Len(sub) + 1) : SubSeq(str, k, k + Len(sub) - 1) = sub

\* :has-text("..."): the inner text holds the text as a substring, whatever
\* the letter case
HasText(e, w) == Includes(ToLowerCase(e.text), ToLowerCase(Chars(w)))

\* 'button:has-text("Add To Cart"), a:has-text("Add To Cart")' (line 267)
IsAddToCart(e) == e.tag \in {"button", "a"} /\ HasText(e, "Add To Cart")

\* 'a:has-text("Cart"), span:has-text("Cart")' (line 397)
IsCartIndicator(e) == e.tag \in {"a", "span"} /\ HasText(e, "Cart")

\* await cartIndicator.count()
CartIndicatorCount(page) == Cardinality({e \in page : IsCartIndicator(e)})

\* lines 392-408: the race check of one attempt on the page as it is after
\* the settle wait
RaceCheck(oc, page) ==
  [count |-> CartIndicatorCount(page), added |-> Succeeded(oc, CartIndicatorCount(page))]

(* ---- the claim of the earlier version of the script ---- *)
(* src/unnamed/part_000, lines 430-458: th[k] tells whether the k-th     *)
(* committing click throws.                                              *)
\* for (let i = 0; i < 3; i++)
OldMaxAttempts == 3
ClickOutcomes == [1..OldMaxAttempts -> BOOLEAN]

RECURSIVE OldRetryLoop(_, _)
\* the retry loop from its k-th iteration on: click, break when the click
\* went through, else warn, pause and go on
OldRetryLoop(th, k) ==
  IF k > OldMaxAttempts THEN [clicks |-> OldMaxAttempts, completed |-> FALSE]
  ELSE IF ~th[k] THEN [clicks |-> k, completed |-> TRUE]
  ELSE OldRetryLoop(th, k + 1)

\* what follows the retry loop: with AUTO_CONFIRM the confirm button is
\* clicked when visible, without it the message and the beep are written;
\* booked = true either way
OldClaim(th, autoConfirm, confirmVisible) ==
  LET r == OldRetryLoop(th, 1)
  IN  [clicks |-> r.clicks,
       completed |-> r.completed,
       confirmed |-> autoConfirm /\ confirmVisible,
       beeps |-> IF autoConfirm THEN 0 ELSE 1,
       booked |-> TRUE]


(* ---------------- applications of the helper functions ---------------- *)
FnInitTimeInRange ==
  /\ fn = "timeInRange"
  /\ arg \in [hhmm : TimeStrings, w : Windows]

FnInitNormalize ==
  /\ fn = "normalizeTimeLabel"
  /\ arg \in [label : {<<>>} \cup {<<t>> : t \in Tokens}]

FnInitFindCandidates ==
  /\ fn = "findCandidates"
  /\ arg \in [rows : Listings, w : Windows]

FnInitNextWeekendDates ==
  /\ fn = "nextWeekendDates"
  /\ arg \in [dow0 : 0..6, prefs : PrefLists]

FnInitTargets ==
  /\ fn = "targets"
  /\ arg \in [dow0 : 0..6, prefs : PrefLists, env : TargetDateEnvs]

FnInitRaceCheck ==
  /\ fn = "raceCheck"
  /\ arg \in [onCartPage : BOOLEAN, page : Pages]

FnInitOldClaim ==
  /\ fn = "oldClaim"
  /\ arg \in [throws : ClickOutcomes, autoConfirm : BOOLEAN, confirmVisible : BOOLEAN]

\* timeInRange(t24, cfg.windowStart, cfg.windowEnd)
ApplyTimeInRange ==
  /\ fn = "timeInRange"
  /\ ~fdone
  /\ res' = TimeInRange(arg.hhmm, arg.w[1], arg.w[2])
  /\ fdone' = TRUE
  /\ UNCHANGED <<fn, arg>>
  /\ UNCHANGED mainvars

\* normalizeTimeLabel(m[1])
ApplyNormalize ==
  /\ fn = "normalizeTimeLabel"
  /\ ~fdone
  /\ res' = NormalizeTimeLabel(arg.label)
  /\ fdone' = TRUE
  /\ UNCHANGED <<fn, arg>>
  /\ UNCHANGED mainvars

\* const hits = await findCandidates(page)
ApplyFindCandidates ==
  /\ fn = "findCandidates"
  /\ ~fdone
  /\ res' = FindCandidates(arg.rows, arg.w[1], arg.w[2])
  /\ fdone' = TRUE
  /\ UNCHANGED <<fn, arg>>
  /\ UNCHANGED mainvars

\* nextWeekendDates()
ApplyNextWeekendDates ==
  /\ fn = "nextWeekendDates"
  /\ ~fdone
  /\ res' = NextWeekendDates(arg.dow0, arg.prefs)
  /\ fdone' = TRUE
  /\ UNCHANGED <<fn, arg>>
  /\ UNCHANGED mainvars

\* lines 359-360: the target dates of the run
ApplyTargets ==
  /\ fn = "targets"
  /\ ~fdone
  /\ res' = ComputeTargets(arg.env, arg.dow0, arg.prefs)
  /\ fdone' = TRUE
  /\ UNCHANGED <<fn, arg>>
  /\ UNCHANGED mainvars

\* the race check of lines 392-408
ApplyRaceCheck ==
  /\ fn = "raceCheck"
  /\ ~fdone
  /\ res' = RaceCheck(arg.onCartPage, arg.page)
  /\ fdone' = TRUE
  /\ UNCHANGED <<fn, arg>>
  /\ UNCHANGED mainvars

\* the claim of the earlier version
ApplyOldClaim ==
  /\ fn = "oldClaim"
  /\ ~fdone
  /\ res' = OldClaim(arg.throws, arg.autoConfirm, arg.confirmVisible)
  /\ fdone' = TRUE
  /\ UNCHANGED <<fn, arg>>
  /\ UNCHANGED mainvars

FnInit ==
  /\ MainOff
  /\ res = <<>>
  /\ fdone = FALSE
  /\ \/ FnInitTimeInRange
     \/ FnInitNormalize
     \/ FnInitFindCandidates
     \/ FnInitNextWeekendDates
     \/ FnInitTargets
     \/ FnInitRaceCheck
     \/ FnInitOldClaim

FnNext ==
  \/ ApplyTimeInRange
  \/ ApplyNormalize
  \/ ApplyFindCandidates
  \/ ApplyNextWeekendDates
  \/ ApplyTargets
  \/ ApplyRaceCheck
  \/ ApplyOldClaim

FnSpec == FnInit /\ [][FnNext]_vars


(* ======================= claims ======================= *)
AllNoSignal(h) == \A j \in 1..Len(h) : h[j] = "NoSignal"

\* C1: once an attempt has been verified as Secured, no further committing
\* Add To Cart click is issued for the rest of the run
C1_NoClickAfterSecured == [][securedCount > 0 => clicks' = clicks]_vars
C1_Witness == pc = "done" /\ securedCount > 0 /\ booked /\ di < Len(targets)

\* C2 as stated: a successful run has issued exactly one committing click
C2_ExactlyOneCommit == outcome = "Secured" => clicks = 1
\* C2 amended: a successful run has exactly one committing click verified as
\* Secured, and it is the last click of the run; clicks that lost the race or
\* threw may precede it
C2_OneSecuredCommit ==
  outcome = "Secured" =>
    /\ securedCount = 1
    /\ clicks >= 1
    /\ hist # <<>> /\ Last(hist) = "Signal"
    /\ Len(hist) = slotClicks
C2_Witness == outcome = "Secured" /\ clicks > MaxAttempts

\* C3 as stated: Failed is reached by a fourth consecutive LostRace
C3_FourthLostRaceFails ==
  (pc = "claimEnd" /\ ~added /\ AllNoSignal(hist)) => Len(hist) = 4
\* C3 amended: at most 3 committing attempts are made on a slot (the first and
\* two retries), the third consecutive LostRace yields Failed, and every claim
\* cycle reaches its end
C3_BoundedRetries ==
  /\ [](/\ slotClicks <= MaxAttempts
        /\ i <= MaxAttempts
        /\ (pc = "claimEnd" /\ ~added) => (slotClicks = MaxAttempts /\ Len(hist) = MaxAttempts)
        /\ (AllNoSignal(hist) /\ Len(hist) = MaxAttempts) => (pc # "attempt" /\ ~added))
  /\ ((pc = "attempt") ~> (pc = "claimEnd"))
C3_Witness ==
  pc = "claimEnd" /\ ~added /\ hist = <<"NoSignal", "NoSignal", "NoSignal">>

\* C4: when the first k-1 race checks of a slot show no signal and the k-th
\* shows one, the slot is Secured after exactly k committing attempts
C4_SecuredAtKth ==
  /\ \A k \in 1..MaxAttempts :
       (Len(hist) >= k /\ hist[k] = "Signal" /\ AllNoSignal(SubSeq(hist, 1, k - 1))) =>
         /\ added
         /\ slotClicks = k
         /\ i = k - 1
         /\ pc \in {"claimEnd", "passEnd", "loop", "report", "done"}
         /\ pc = "done" => outcome = "Secured"
  /\ (AllNoSignal(hist) /\ hist # <<>> /\ Len(hist) < MaxAttempts /\ checked) => pc = "attempt"
C4_Witness ==
  /\ hist = <<"NoSignal", "NoSignal", "Signal">>
  /\ outcome = "Secured"
  /\ slotClicks = 3

\* C5: after the settle wait the attempt counts as succeeded exactly when the
\* location is the cart page or the cart indicator is present; with neither
\* the attempt is a lost race and the run goes on
C5_SignalOr ==
  checked =>
    /\ added <=> (onCartPage \/ cartCount > 0)
    /\ (~onCartPage /\ cartCount = 0) =>
         (Last(hist) = "NoSignal" /\ pc \in {"attempt", "claimEnd"} /\ outcome = "none")
C5_Witness == checked /\ added /\ ~onCartPage /\ cartCount > 0 /\ pc = "claimEnd"

\* C6: unless a search throws, every run ends, reporting Secured or Exhausted
C6_Terminates ==
  <>(\/ pc = "fatal"
     \/ /\ pc = "done"
        /\ outcome \in {"Secured", "Exhausted"}
        /\ outcome = "Secured" <=> booked)
C6_Witness == pc = "done" /\ outcome = "Exhausted" /\ cycles > 0 /\ passes > 1

\* C7: no pass begins once the elapsed time has reached the budget
C7_DeadlineAtPassTop == passes > 0 => passStart - start < BudgetMs
C7_Witness ==
  pc = "report" /\ ~booked /\ passes >= 2 /\ Elapsed = BudgetMs

\* C8 as stated: at most one claim cycle begins after the deadline
C8_OneLateCycle == lateCycles <= 1
\* C8 amended: after the deadline only the pass in flight is finished: at most
\* one claim cycle per target date (at most 2) begins after the deadline
C8_LateCyclesWithinPass ==
  /\ lateCycles <= Len(targets)
  /\ lateCycles <= MaxTargets
  /\ lateCycles > 0 => passStart - start < BudgetMs
C8_Witness == lateCycles = 2 /\ pc = "done"

\* longest and shortest pass in which no search finds a candidate
NoHitPassMaxMs ==
  Len(targets) * SetMax(SearchDurations) + refreshJitter[1] + SetMax(ReloadDurations)
NoHitPassMinMs ==
  Len(targets) * SetMin(SearchDurations) + refreshJitter[1] + SetMin(ReloadDurations)

\* C9: with a fixed jitter [J,J] and no candidate ever, the run ends Exhausted
\* after a bounded number of passes, within the budget plus one pass
C9_ExhaustedBounded ==
  (refreshJitter[1] = refreshJitter[2] /\ cycles = 0) =>
    /\ Elapsed < BudgetMs + NoHitPassMaxMs
    /\ (passes - 1) * NoHitPassMinMs < BudgetMs
    /\ pc = "done" => outcome = "Exhausted"
C9_Witness ==
  /\ refreshJitter = <<1000, 1000>>
  /\ cycles = 0
  /\ pc = "done"
  /\ outcome = "Exhausted"
  /\ Elapsed > BudgetMs
  /\ passes >= 2

\* C10: a Failed claim does not abort the run: the next target date of the
\* pass is searched, and after the last date the inter-pass delay is taken
C10_FailedContinues ==
  [][/\ (pc = "claimEnd" /\ ~added) =>
          /\ pc' = (IF di < Len(targets) THEN "search" ELSE "passEnd")
          /\ di' = di + 1
          /\ ~booked'
          /\ outcome' = "none"
     /\ (pc = "passEnd" /\ ~booked) => (pc' = "loop" /\ now' > now)]_vars
C10_Witness ==
  /\ pc = "loop"
  /\ passes = 1
  /\ cycles = 2
  /\ ~added
  /\ Len(hist) = MaxAttempts
  /\ now > passStart

\* C15: timeInRange(t, start, end) holds exactly when start <= t <= end in
\* minutes of the day: both ends qualify, one minute outside either does not
C15_InclusiveRange ==
  (fn = "timeInRange" /\ fdone) =>
    LET t == arg.hhmm[1] * 60 + arg.hhmm[2]
        s == arg.w[1][1] * 60 + arg.w[1][2]
        e == arg.w[2][1] * 60 + arg.w[2][2]
    IN  /\ res <=> (s <= t /\ t <= e)
        /\ (t = s /\ s <= e) => res
        /\ (t = e /\ s <= e) => res
        /\ (t = s - 1 \/ t = e + 1) => ~res
C15_Witness ==
  /\ fn = "timeInRange" /\ fdone
  /\ arg.hhmm = <<9, 0>> /\ arg.w = <<<<7, 0>>, <<9, 0>>>>
  /\ res = TRUE

\* C16: for a well-formed token H:MM am|pm (H in 1..12, MM in 00..59, either
\* letter case) normalizeTimeLabel returns the time whose minute of the day is
\* ((H mod 12) + 12 if pm) * 60 + MM, which lies in 00:00..23:59
C16_Conversion ==
  (fn = "normalizeTimeLabel" /\ fdone /\ arg.label # <<>>) =>
    LET m  == arg.label[1]
        pm == m.ampm \in {"pm", "PM", "Pm"}
    IN  (m.hh \in 1..12 /\ m.mm \in 0..59) =>
          /\ res[1] * 60 + res[2] = ((m.hh % 12) + (IF pm THEN 12 ELSE 0)) * 60 + m.mm
          /\ res[1] \in 0..23 /\ res[2] \in 0..59
          /\ (m.hh = 12 /\ m.mm = 0 /\ ~pm) => res = <<0, 0>>
          /\ (m.hh = 12 /\ m.mm = 0 /\ pm) => res = <<12, 0>>
          /\ (m.hh = 11 /\ m.mm = 59 /\ pm) => res = <<23, 59>>
C16_Witness ==
  /\ fn = "normalizeTimeLabel" /\ fdone
  /\ arg.label = <<[hh |-> 12, mm |-> 0, ampm |-> "AM"]>>
  /\ res = <<0, 0>>

\* the rows of a listing, and the rows of a result
RowIds(rows) == {rows[k].id : k \in 1..Len(rows)}
HitRows(hs) == {hs[k].row : k \in 1..Len(hs)}
PosIn(rows, n) == CHOOSE k \in 1..Len(rows) : rows[k].id = n
\* the minute of the day a token stands for, by the code's own conversion
TokMin(tk) == ToMin(NormalizeTimeLabel(<<tk>>))
InWindow(v, w) == ToMin(w[1]) <= v /\ v <= ToMin(w[2])

\* C12 as stated: the result holds exactly the rows with the label, with a
\* clock-time token whose value lies in the window, and with an Add To Cart
C12_AnyTokenInWindow ==
  (fn = "findCandidates" /\ fdone) =>
    HitRows(res) =
      {r.id : r \in {x \in RowPool :
          /\ x.id \in RowIds(arg.rows)
          /\ x.label
          /\ \E k \in 1..Len(x.toks) : InWindow(TokMin(x.toks[k]), arg.w)
          /\ x.btns > 0}}
\* C12 amended: the token that counts is the first clock-time token of the
\* row text; the scenario listing gives [07:00, 08:30] for window 07:00-09:00
C12_FirstTokenInWindow ==
  (fn = "findCandidates" /\ fdone) =>
    /\ HitRows(res) =
         {r.id : r \in {x \in RowPool :
             /\ x.id \in RowIds(arg.rows)
             /\ x.label
             /\ x.toks # <<>>
             /\ InWindow(TokMin(x.toks[1]), arg.w)
             /\ x.btns > 0}}
    /\ Cardinality(HitRows(res)) = Len(res)
    /\ \A k \in 1..Len(res) : res[k].t = NormalizeTimeLabel(<<RowById(res[k].row).toks[1]>>)
    /\ (arg.rows = ScenarioRows /\ arg.w = <<<<7, 0>>, <<9, 0>>>>) =>
         res = <<[t |-> <<7, 0>>, row |-> 2], [t |-> <<8, 30>>, row |-> 3]>>
C12_Witness ==
  /\ fn = "findCandidates" /\ fdone
  /\ arg.rows = ScenarioRows
  /\ arg.w = <<<<7, 0>>, <<9, 0>>>>
  /\ Len(res) = 2

\* C13 as stated: the result is ascending by minute of the day, and records
\* of equal time keep their listing order
C13_AscendingByMinute ==
  (fn = "findCandidates" /\ fdone) =>
    \A a, b \in 1..Len(res) :
      a < b => /\ ToMin(res[a].t) <= ToMin(res[b].t)
               /\ ToMin(res[a].t) = ToMin(res[b].t) =>
                    PosIn(arg.rows, res[a].row) < PosIn(arg.rows, res[b].row)
\* C13 amended: the result is ascending by its zero-padded HH:MM key, which is
\* the order of the minutes of the day when every record's minute field is
\* 00..59 (window end below 100:00); records of equal key keep listing order
C13_AscendingByKey ==
  (fn = "findCandidates" /\ fdone) =>
    \A a, b \in 1..Len(res) :
      a < b =>
        /\ ~StrLess(TimeKey(res[b].t), TimeKey(res[a].t))
        /\ res[a].t = res[b].t =>
             PosIn(arg.rows, res[a].row) < PosIn(arg.rows, res[b].row)
        /\ (res[a].t[2] <= 59 /\ res[b].t[2] <= 59) =>
             /\ ToMin(res[a].t) <= ToMin(res[b].t)
             /\ ToMin(res[a].t) = ToMin(res[b].t) => res[a].t = res[b].t
C13_Witness ==
  /\ fn = "findCandidates" /\ fdone
  /\ Len(res) = 3
  /\ res[1].row = 5 /\ res[2].row = 2
  /\ res[3].t = <<8, 30>>
  /\ arg.rows[1].id = 3

\* the full English names of the weekdays 0..6, in lower case
DowFullLower == <<<<"s", "u", "n", "d", "a", "y">>, <<"m", "o", "n", "d", "a", "y">>, <<"t", "u", "e", "s", "d", "a", "y">>, <<"w", "e", "d", "n", "e", "s", "d", "a", "y">>, <<"t", "h", "u", "r", "s", "d", "a", "y">>, <<"f", "r", "i", "d", "a", "y">>, <<"s", "a", "t", "u", "r", "d", "a", "y">>>>
\* the weekday a preference token names: the token begins its full name
Names(x, dow) == x # <<>> /\ StartsWith(DowFullLower[dow + 1], ToLowerCase(x))
SatSun == <<<<"S", "a", "t">>, <<"S", "u", "n">>>>
SaturdaySunday == <<<<"S", "a", "t", "u", "r", "d", "a", "y">>, <<"S", "u", "n", "d", "a", "y">>>>

\* C17: nextWeekendDates returns at most 2 dates, each on a preferred weekday
\* and within [now, now + 14 days], in chronological order whatever the order
\* of the preferences
C17_AtMostTwoInLookahead ==
  (fn = "nextWeekendDates" /\ fdone) =>
    /\ Len(res) <= 2
    /\ \A k \in 1..Len(res) :
         /\ res[k] >= 0 /\ res[k] <= 14
         /\ \E j \in 1..Len(arg.prefs) : Names(arg.prefs[j], (arg.dow0 + res[k]) % 7)
    /\ \A a, b \in 1..Len(res) : a < b => res[a] < res[b]
C17_Witness ==
  /\ fn = "nextWeekendDates" /\ fdone
  /\ arg.prefs[1] = SatSun[2] /\ arg.prefs[2] = SatSun[1]
  /\ arg.dow0 = 5
  /\ res = <<1, 2>>

\* C18: no two returned dates fall on the same weekday; a single preferred
\* day yields exactly one date
C18_DistinctWeekdays ==
  (fn = "nextWeekendDates" /\ fdone) =>
    /\ \A a, b \in 1..Len(res) :
         a # b => (arg.dow0 + res[a]) % 7 # (arg.dow0 + res[b]) % 7
    /\ Len(arg.prefs) = 1 => Len(res) <= 1

\* C19: with a forced date supplied, the targets are exactly that one date,
\* whatever the day preferences
C19_ForcedDateAlone ==
  (fn = "targets" /\ fdone) =>
    ((Len(arg.env) >= 3 /\ arg.env[1] \in 1..12 /\ arg.env[2] \in 1..31) =>
       /\ Len(res) = 1
       /\ res[1] = (arg.env[3] - 2025) * 365 + DaysBeforeMonth[arg.env[1]] + arg.env[2]
                     - (273 + 19 + arg.dow0))
C19_Witness ==
  /\ fn = "targets" /\ fdone
  /\ arg.env = <<10, 26, 2025>>
  /\ arg.prefs = SatSun
  /\ arg.dow0 = 1
  /\ res = <<6>>

\* C20 as stated: the preferences {Saturday, Sunday} give the next Saturday
\* and the next Sunday, as {Sat, Sun} do
C20_FullNamesSelect ==
  (fn = "nextWeekendDates" /\ fdone /\ arg.prefs = SaturdaySunday) =>
    /\ Len(res) = 2
    /\ \A k \in 1..Len(res) : (arg.dow0 + res[k]) % 7 \in {0, 6}
\* C20 amended: a token selects the weekdays whose three-letter abbreviation
\* begins with it (case ignored); a full name selects no date, so
\* {Saturday, Sunday} gives no date, and {Sat, Sun} the next Saturday and Sunday
C20_AbbreviationsSelect ==
  (fn = "nextWeekendDates" /\ fdone) =>
    /\ \A k \in 1..Len(res) :
         \E j \in 1..Len(arg.prefs) :
           /\ Len(arg.prefs[j]) <= 3
           /\ Names(arg.prefs[j], (arg.dow0 + res[k]) % 7)
    /\ (\A j \in 1..Len(arg.prefs) : Len(arg.prefs[j]) > 3) => res = <<>>
    /\ arg.prefs = SatSun =>
         /\ Len(res) = 2
         /\ {(arg.dow0 + res[k]) % 7 : k \in 1..Len(res)} = {0, 6}
         /\ res[2] <= 7
C20_Witness ==
  /\ fn = "nextWeekendDates" /\ fdone
  /\ arg.prefs = SaturdaySunday
  /\ res = <<>>

\* C11: a search error does not reach the top level and does not end the run
C11_SearchErrorAbsorbed == pc # "fatal" /\ outcome # "Fatal"

\* the kinds of action the script issues against the site; none of them
\* confirms, checks out or pays
SiteActions == {"none", "launch", "goto", "login", "search", "trial", "click", "reload"}

\* C26: no run issues a confirm, checkout or pay action, and once a slot is
\* Secured no further action (search, reload, trial or committing click) is
\* issued against the site
C26_NoActionAfterSecured ==
  /\ [](lastExt \in SiteActions /\ lastExt \notin {"confirm", "checkout", "pay"})
  /\ [][securedCount > 0 => (lastExt' = lastExt /\ now' = now)]_vars
C26_Witness ==
  /\ pc = "done"
  /\ outcome = "Secured"
  /\ lastExt = "click"
  /\ passes > 1

\* C27: a run that ends without a fatal error reports exactly one of Secured
\* and Exhausted: Secured, with the one beep of the run, exactly when a slot
\* was secured, Exhausted exactly when the budget ran out with none secured;
\* no beep is written for a claim that failed
C27_OneFinalSignal ==
  /\ beeps <= 1
  /\ beeps = 1 => (added /\ booked /\ securedCount = 1 /\ Last(hist) = "Signal")
  /\ (pc = "claimEnd" \/ beeps = 0) => ~booked
  /\ pc = "done" =>
       /\ outcome \in {"Secured", "Exhausted"}
       /\ outcome = "Secured" <=> (beeps = 1 /\ securedCount > 0)
       /\ outcome = "Exhausted" <=> (beeps = 0 /\ securedCount = 0 /\ Elapsed >= BudgetMs)
C27_Witness ==
  /\ pc = "done"
  /\ outcome = "Secured"
  /\ beeps = 1
  /\ cycles > 1

\* C28: with an empty list of target dates the run issues no search and no
\* claim action, raises no error and ends reporting Exhausted
C28_EmptyTargets ==
  /\ [](targets = <<>> =>
          /\ cycles = 0 /\ clicks = 0
          /\ lastExt \in {"goto", "reload"}
          /\ pc \notin {"search", "attempt", "click", "fatal"}
          /\ outcome \in {"none", "Exhausted"})
  /\ ((targets = <<>>) ~> (pc = "done" /\ outcome = "Exhausted"))
C28_Witness ==
  /\ targets = <<>>
  /\ pc = "done"
  /\ outcome = "Exhausted"
  /\ passes > 1
  /\ lastExt = "reload"

\* C29: every committing click is issued right after the trial click of the
\* same attempt, and the committing click follows the trial click whether the
\* trial click failed or not
C29_TrialBeforeCommit ==
  [][/\ (clicks' # clicks) => (pc = "click" /\ trial \in {"ok", "failed"} /\ lastExt = "trial")
     /\ (pc = "attempt") => (pc' = "click" /\ trial' \in {"ok", "failed"} /\ clicks' = clicks)
     /\ (pc = "click") => (clicks' = clicks + 1 /\ trial' = trial)]_vars
C29_Witness ==
  /\ trial = "failed"
  /\ lastExt = "click"
  /\ pc = "verify"
  /\ slotClicks = 2

\* C30: whenever a further attempt on the same slot begins, the 200 ms pause
\* has been taken since the attempt before it
C30_PauseBetweenAttempts == (pc = "attempt" /\ i > 0) => paused

(* ---------------- claims about the startup ---------------- *)
\* the alignment is over
Aligned == ms >= 0

C22_NoSearchBeforeRelease == (release > 0 /\ pc = "search") => now >= release

\* C23: with USERNAME or PASSWORD missing the run fails in assertEnv, before
\* the browser is launched and before any navigation, login, search or claim
C23_ConfigErrorFirst ==
  (cfg.user = "" \/ cfg.pass = "") =>
    /\ pc \in {"assertEnv", "fatal"}
    /\ lastExt = "none"
    /\ ensured = 0 /\ passes = 0 /\ cycles = 0 /\ clicks = 0
    /\ pc = "fatal" => outcome = "Fatal"
C23_Witness ==
  /\ cfg.user = "golfer"
  /\ cfg.pass = ""
  /\ pc = "fatal"
  /\ outcome = "Fatal"

\* 0 <= start <= end <= 1439 minutes, both fields of both values in range
ValidWindow(ws, we) ==
  /\ ws[1] \in 0..23 /\ ws[2] \in 0..59
  /\ we[1] \in 0..23 /\ we[2] \in 0..59
  /\ ToMin(ws) <= ToMin(we)

\* C24: the poll loop is only reached with a window that satisfies
\* 0 <= start <= end <= 1439
C24_WindowValidated ==
  pc \in {"loop", "search", "attempt", "click", "verify", "catch", "claimEnd", "passEnd"} =>
    ValidWindow(cfg.windowStart, cfg.windowEnd)

\* C25: by the time a pass issues a search, the run has made sure of its
\* session once for every pass begun
C25_AuthEnsuredEachPass == pc = "search" => ensured >= passes

(* ---------------- claims about the slot record and the delay ---------- *)
\* the positions of main inside a claim on the slot in scope
ClaimPcs == {"attempt", "click", "verify", "catch", "claimEnd"}

C32_EarliestSlotOnly ==
  /\ [](pc \in ClaimPcs =>
          /\ hits # <<>>
          /\ best.t = hits[1]
          /\ \A k \in 1..Len(hits) : best.t <= hits[k]
          /\ target # NoTarget => target.t = hits[1])
  /\ [][/\ cycles' # cycles => (pc = "search" /\ cycles' = cycles + 1)
        /\ (pc' = "search" /\ pc # "loop") => (di' = di + 1 /\ passes' = passes)
        /\ (pc = "claimEnd" /\ ~added) => (pc' \notin ClaimPcs /\ di' = di + 1)]_vars
C32_Witness ==
  /\ pc = "search"
  /\ di = 2
  /\ ~added
  /\ Len(hits) = 2
  /\ target.t = hits[1]
  /\ target.attempt = MaxAttempts - 1

\* C33: every click of a claim goes to the slot record that the latest search
\* produced, a search for the same date in the same pass; a claim begins only
\* out of a search
C33_RecordOfLatestSearch ==
  /\ [](pc \in ClaimPcs =>
          /\ best.d = di /\ best.p = passes
          /\ target # NoTarget => (target.d = di /\ target.p = passes))
  /\ [][/\ clicks' # clicks => (target'.d = di /\ target'.p = passes /\ target'.t = best.t)
        /\ (pc' = "attempt" /\ pc \notin ClaimPcs) =>
             (pc = "search" /\ lastExt' = "search" /\ best'.d = di /\ best'.p = passes)]_vars
C33_Witness ==
  /\ pc = "verify"
  /\ passes = 2
  /\ target.p = 2
  /\ target.d = di
  /\ cycles = 2

\* C34: after a pass without a secured slot one jittered delay d with
\* min <= d <= max is slept before the next pass; none is slept inside a pass
\* or after a pass that secured a slot
C34_OneDelayPerPass ==
  /\ [](/\ (pc \notin {"loop", "report", "done", "fatal"}) => lastDelay = 0 - 1
        /\ booked => lastDelay = 0 - 1
        /\ (pc = "search" /\ passes > 1) => now - start >= (passes - 1) * refreshJitter[1])
  /\ [][pc = "passEnd" =>
          IF ~booked
            THEN /\ lastDelay' >= refreshJitter[1]
                 /\ lastDelay' <= refreshJitter[2]
                 /\ now' >= now + lastDelay'
            ELSE now' = now /\ lastDelay' = lastDelay]_vars
C34_Witness ==
  /\ pc = "loop"
  /\ passes = 1
  /\ ~booked
  /\ refreshJitter = <<500, 1500>>
  /\ lastDelay = 1000

(* ---------------- claims about the whole run ---------------- *)
\* the positions of main before the poll loop, and those in it
StartupPcs == {"assertEnv", "launch", "session", "gotoSearch", "align", "targets"}
LoopPcs == {"loop", "search", "attempt", "click", "verify", "catch", "claimEnd", "passEnd"}

\* C35: the target dates and the alignment are fixed before the first pass:
\* once the poll loop is entered, the list of target dates never changes, no
\* alignment wait is slept and main never goes back above the loop
C35_TargetsAndAlignmentOnce ==
  /\ [](pc \in LoopPcs => (Aligned /\ passes >= 0 /\ start >= slept))
  /\ [](passes > 0 => pc \notin StartupPcs)
  /\ [][pc \notin StartupPcs =>
          /\ targets' = targets
          /\ ms' = ms /\ slept' = slept
          /\ pc' \notin StartupPcs]_vars
C35_Witness ==
  /\ pc = "search"
  /\ passes = 2
  /\ slept = 60000
  /\ targets = <<5>>

\* C37: the budget runs from the start of the poll loop: the first pass
\* begins at the very instant the budget starts, after login and alignment
\* wait, and a run without a booking ends only after the whole budget has
\* passed since then
C37_BudgetFromLoopStart ==
  /\ pc \in LoopPcs => (start >= slept /\ (slept > 0 => start >= release))
  /\ passes = 1 => passStart = start
  /\ (pc \in {"report", "done"} /\ ~booked) =>
       (passes >= 1 /\ now - start >= BudgetMs /\ now >= slept + BudgetMs)
C37_Witness ==
  /\ pc = "done"
  /\ outcome = "Exhausted"
  /\ slept = 60000
  /\ start = 60500
  /\ passes = 2

(* ---------------- claims about the race check and the targets --------- *)
\* the page shows an Add To Cart affordance and no cart marker of its own
OnlyAffordances(page) ==
  /\ \E e \in page : IsAddToCart(e)
  /\ \A e \in page : HasText(e, "Cart") => IsAddToCart(e)

\* C36: after a rejected claim (not on the cart page, no cart marker) the Add
\* To Cart affordances still on the page are not counted as the cart
\* indicator, and the attempt is not classified as succeeded
C36_IndicatorIndependent ==
  (fn = "raceCheck" /\ fdone /\ ~arg.onCartPage /\ OnlyAffordances(arg.page)) =>
    (res.count = 0 /\ ~res.added)

\* TARGET_DATE is set and is no date: a part is missing, or month or day is
\* out of range
Unparseable(env) ==
  env # <<>> /\ (Len(env) < 3 \/ env[1] \notin 1..12 \/ env[2] \notin 1..31)

\* C38: a TARGET_DATE that cannot be parsed gives the targets that the
\* preferred weekdays give: at most two days of the next 14, on preferred
\* weekdays, the next Saturday and Sunday for Sat,Sun
C38_UnparseableFallsBack ==
  (fn = "targets" /\ fdone /\ Unparseable(arg.env)) =>
    /\ Len(res) <= MaxTargets
    /\ \A k \in 1..Len(res) :
         /\ res[k] \in 0..(LookaheadDays - 1)
         /\ \E j \in 1..Len(arg.prefs) : Names(arg.prefs[j], WeekdayOf(arg.dow0, res[k]))
    /\ arg.prefs = SatSun =>
         (Len(res) = 2 /\ {WeekdayOf(arg.dow0, res[1]), WeekdayOf(arg.dow0, res[2])} = {0, 6})
C38_Witness ==
  /\ fn = "targets" /\ fdone
  /\ arg.env = <<10, 26>>
  /\ arg.prefs = SatSun
  /\ arg.dow0 = 1
  /\ res = <<5, 6>>

\* C39: in the earlier version the run is marked booked, and the beep is
\* written, only if one of the up-to-3 clicks went through
C39_BookedOnlyIfClicked ==
  (fn = "oldClaim" /\ fdone) =>
    /\ res.booked => res.completed
    /\ res.beeps > 0 => res.completed

====
